---- MODULE Spec2Model ----
(***************************************************************************)
(* Model of gazoo_device's concurrent device-I/O layer:                    *)
(*   - utility/parallel_utils.py: execute_concurrently and the parallel    *)
(*     processes it starts (specification SpecExec for returned values     *)
(*     that fit the pipe of the return queue, SpecHangScenario for the     *)
(*     call with three call specs of which the second hangs, SpecPipe for  *)
(*     returned values of any size);                                       *)
(*   - switchboard/transports/pigweed_rpc_transport.py: PwHdlcRpcClient    *)
(*     and PigweedRPCTransport (specification SpecTransport for start,     *)
(*     open, close and is_open; SpecLink for the worker's loop, the frames *)
(*     it handles and _read; SpecRpc for rpc and close; SpecImport for     *)
(*     the import of the module and the construction; SpecRace for two     *)
(*     threads in start() at the same time).                               *)
(*                                                                         *)
(* Python's 0-based indices are kept: lists are functions on 0..n-1.       *)
(* Optional[Tuple[str, str]] is a sequence: None is the empty one.         *)
(***************************************************************************)
EXTENDS Integers, Sequences, FiniteSets, TLC

(***************************************************************************)
(* Bounds of the model.                                                    *)
(***************************************************************************)
\* Largest number of call specs handed to execute_concurrently.
MaxProcs == 2
\* Most worker threads one client starts over its life.
MaxThreads == 2
\* Largest timeout argument, in seconds.
MaxTimeout == 1
\* Most seconds that pass in one step of the clock.
TickStep == 3
\* Most frames the device sends over the life of the transport.
MaxFrames == 1
\* Most bytes one read of the handle returns.
MaxChunk == 2
\* Largest timeout argument of _read, in seconds.
MaxReadTimeout == 1

(***************************************************************************)
(* Program constants of parallel_utils.py.                                 *)
(***************************************************************************)
NO_RESULT == "< No result received >"
_TIMEOUT_TERMINATE_PROCESS == 3
None == << >>
\* errors.ResultNotReceivedError.__name__ and the message of lines 260-262.
ResultNotReceivedError == <<"ResultNotReceivedError", "Did not receive any results from the process.">>

\* What the task function of call_specs[p] can do when it is called in its
\* process: return a value of its own or the very string NO_RESULT, raise an
\* Exception with a message of its own, never return, or take the process down
\* with it. Values and messages differ from one index to the next, as the
\* arguments of the call specs do (lines 62-77).
ValueNames == <<"R0", "R1", "R2", "R3", "R4", "R5">>
MessageNames == <<"E0", "E1", "E2", "E3", "E4", "E5">>
ValueOf(p) == ValueNames[p + 1]
ErrorOf(p) == <<"RuntimeError", MessageNames[p + 1]>>
\* The size of the pickled message of a returned value: "small" fits the pipe
\* of a multiprocessing.Queue whole, "large" is more than the pipe holds.
Sizes == {"small", "large"}
Behaviours(p) ==
    [kind : {"return"}, ret : {ValueOf(p), NO_RESULT}, err : {None}, size : Sizes]
      \cup [kind : {"raise"}, ret : {NO_RESULT}, err : {ErrorOf(p)}, size : {"small"}]
      \cup [kind : {"hang", "die"}, ret : {NO_RESULT}, err : {None}, size : {"small"}]
AllBehaviours == UNION {Behaviours(p) : p \in 0..(Len(ValueNames) - 1)}

VARIABLES
    \* ---- execute_concurrently: arguments
    call_specs,              \* [p \in 0..n-1 -> Behaviours(p)]
    timeout,                 \* seconds
    raise_on_process_error,  \* BOOLEAN
    \* ---- execute_concurrently: the main process
    pc,                      \* position of the main process
    idx,                     \* index of the process the current loop is at
    now,                     \* time.time(), in seconds since the call
    deadline,                \* line 232
    join_until,              \* when the join the main process is blocked in times out
    return_queue,            \* messages <<proc_id, value>> in flight
    error_queue,             \* messages <<proc_id, <<type, message>>>> in flight
    return_contents,         \* _read_all_from_queue(return_queue), so far
    error_contents,          \* _read_all_from_queue(error_queue), so far
    proc_results,            \* [0..n-1 -> value], << >> until line 248
    proc_errors,             \* [0..n-1 -> None or <<type, message>>], << >> until line 252
    \* ---- the parallel processes
    pstate,                  \* [0..n-1 -> "new" | "running" | "put" | "flushing" |
                             \*            "exited" | "dead"]
    terminated,              \* processes terminate() was called on
    killed,                  \* processes kill() was called on
    puts,                    \* [0..n-1 -> number of messages the process has put]
    closes,                  \* [0..n-1 -> number of manager_inst.close() calls]
    managers,                \* [0..n-1 -> number of Manager() the process made]
    feeder,                  \* [0..n-1 -> "idle" | "writing" | "waiting"]: the
                             \* thread of the process that writes return_queue
    \* ---- PigweedRPCTransport and its PwHdlcRpcClient
    serial_open,             \* self._serial.isOpen()
    cloexec,                 \* FD_CLOEXEC is set on the handle
    locked,                  \* an flock is held on the handle
    _stop_event,             \* self._stop_event.is_set()
    _worker,                 \* self._worker: NoThread (None) or a thread
    threads,                 \* the worker threads ever started, by thread id
    caller,                  \* position of the thread that calls the transport
    outcome,                 \* <<call, result>> of the last call that ended
    elapsed,                 \* seconds the caller has been blocked in its call
    wait_limit,              \* timeout of the call the caller is blocked in
    \* ---- the link and the worker's loop
    sent,                    \* number of frames the device has put on the link
    rx,                      \* bytes on the link handle, not read yet
    decoder,                 \* decoder of read_and_process_data, line 121
    frames,                  \* frames of the last read, not handled yet
    wire_read,               \* bytes the worker has read since it started
    yielded,                 \* frames the worker's decoder has completed
    handled,                 \* calls of _handle_frame: [frame, raised]
    rpc_packets,             \* frames given to self._client.process_packet
    log_puts,                \* frames whose data was put on log_queue
    log_queue,               \* self.log_queue
    reads,                   \* chunks _read has returned
    \* ---- the thread that calls rpc()
    rpc_caller,              \* "idle" | "pending"
    rpc_outcome,             \* <<"rpc", result>> of the last rpc() that ended
    rpc_reply,               \* what the remote answered to the last rpc()
    rpc_value,               \* the (ack, payload) the last rpc() returned
    \* ---- threads that call PwHdlcRpcClient.start() at the same time
    starters,                \* [Starters -> line of start() the thread is at]
    \* ---- the module pigweed_rpc_transport and its optional packages
    installed,               \* the Pigweed packages of the environment
    module_state,            \* "unimported" | "imported" | "ImportError"
    PIGWEED_IMPORT,          \* lines 37 and 44; FALSE before the import
    constructed              \* <<result, message>> of PigweedRPCTransport(...)

execVars == <<call_specs, timeout, raise_on_process_error, pc, idx, now, deadline,
              join_until, return_queue, error_queue, return_contents, error_contents,
              proc_results, proc_errors, pstate, terminated, killed, puts, closes,
              managers, feeder>>

handleVars == <<serial_open, cloexec, locked>>
waitVars == <<elapsed, wait_limit>>
loopVars == <<decoder, frames, wire_read, yielded>>
sinkVars == <<handled, rpc_packets, log_puts>>
rpcVars == <<rpc_caller, rpc_outcome, rpc_reply, rpc_value>>

transportVars == <<handleVars, _stop_event, _worker, threads, caller, outcome,
                   waitVars, sent, rx, loopVars, sinkVars, log_queue, reads,
                   rpcVars, starters>>

importVars == <<installed, module_state, PIGWEED_IMPORT, constructed>>

vars == <<execVars, transportVars, importVars>>

\* len(call_specs) and range(len(call_specs)).
NumSpecs == Cardinality(DOMAIN call_specs)
ProcIds == DOMAIN call_specs

Max(a, b) == IF a >= b THEN a ELSE b
Min(a, b) == IF a <= b THEN a ELSE b

\* process.is_alive(). A process whose function is over stays alive until
\* its Manager is closed and what it has put is written to the pipe.
IsAlive(p) == pstate[p] \in {"running", "put", "flushing"}

(***************************************************************************)
(* State after the processes are created (lines 219-232): nothing started, *)
(* both queues empty, the deadline computed once.                          *)
(***************************************************************************)
\* The arguments of execute_concurrently (lines 190-195): between lo and hi
\* call specs, a timeout, the policy for errors.
ExecInputs(lo, hi) ==
    /\ \E n \in lo..hi :
          call_specs \in {f \in [0..(n - 1) -> AllBehaviours] :
                             \A p \in DOMAIN f : f[p] \in Behaviours(p)}
    /\ timeout \in 1..MaxTimeout
    /\ raise_on_process_error \in BOOLEAN

\* Every value the functions return fits the pipe of the return queue.
FitThePipe == \A p \in DOMAIN call_specs : call_specs[p].size = "small"

\* Lines 219-232.
ExecSetup ==
    /\ pc = "start"
    /\ idx = 0
    /\ now = 0
    /\ deadline = now + timeout
    /\ join_until = 0
    /\ return_queue = << >>
    /\ error_queue = << >>
    /\ return_contents = << >>
    /\ error_contents = << >>
    /\ proc_results = << >>
    /\ proc_errors = << >>
    /\ pstate = [p \in DOMAIN call_specs |-> "new"]
    /\ terminated = {}
    /\ killed = {}
    /\ puts = [p \in DOMAIN call_specs |-> 0]
    /\ closes = [p \in DOMAIN call_specs |-> 0]
    /\ managers = [p \in DOMAIN call_specs |-> 0]
    /\ feeder = [p \in DOMAIN call_specs |-> "idle"]

(***************************************************************************)
(* The parallel processes: _process_wrapper (lines 153-175).               *)
(***************************************************************************)
\* Mutant of PutError: the name of the base class instead of type(e).__name__.
PutErrorBaseType(q, p, error) == Append(q, <<p, <<"Exception", error[2]>>>>)

\* return_queue.put((process_id, return_value)), line 169.
PutResult(q, p, value) == Append(q, <<p, value>>)

\* error_queue.put((process_id, (type(e).__name__, str(e)))), line 172.
PutError(q, p, error) == Append(q, <<p, error>>)

\* A process that was sent SIGKILL runs no more code of its own.
CanRun(p) == p \notin killed

\* Mutant of Finally: the Manager is closed only when the function returned.
FinallyAfterReturnOnly(task_end) == IF task_end = "return" THEN "put" ELSE "exited"

\* Lines 166-175: the finally clause follows the try and the except alike;
\* the process goes on to manager_inst.close() after its put.
Finally(task_end) == "put"

\* The write lock of return_queue is held: the feeder thread of some process
\* is in the middle of a message. It waits in write() for the reader to make
\* room in the pipe, and the main process reads only after the join loop, so
\* the lock is not released while a process runs.
WriteLockHeld == \E q \in ProcIds : feeder[q] = "writing"

\* What the feeder thread of a process does with a message that was put: it
\* waits for the write lock if another feeder holds it; a message that fits
\* the pipe is written whole; of a larger one a part is written and the
\* thread blocks in write() with the lock held.
Feed(size) ==
    IF WriteLockHeld THEN "waiting"
    ELSE IF size = "small" THEN "idle" ELSE "writing"

\* Lines 160-169: the process makes its Manager (line 165) and calls the task
\* function with it; the function returns and its value is put on the return
\* queue. put() hands the message to the feeder thread of the queue and
\* returns; the message is on the queue once the feeder has written it whole.
ChildReturn(p) ==
    /\ pstate[p] = "running"
    /\ CanRun(p)
    /\ call_specs[p].kind = "return"
    /\ managers' = [managers EXCEPT ![p] = @ + 1]
    /\ feeder' = [feeder EXCEPT ![p] = Feed(call_specs[p].size)]
    /\ return_queue' = IF feeder'[p] = "idle"
                         THEN PutResult(return_queue, p, call_specs[p].ret)
                         ELSE return_queue
    /\ puts' = [puts EXCEPT ![p] = @ + 1]
    /\ pstate' = [pstate EXCEPT ![p] = Finally("return")]
    /\ UNCHANGED <<call_specs, timeout, raise_on_process_error, pc, idx, now,
                   deadline, join_until, error_queue, return_contents,
                   error_contents, proc_results, proc_errors, terminated, killed,
                   closes>>
    /\ UNCHANGED <<transportVars, importVars>>

\* Lines 160-172: the process makes its Manager and calls the task function
\* with it; the function raises an Exception and (type name, message) is put
\* on the error queue.
ChildRaise(p) ==
    /\ pstate[p] = "running"
    /\ CanRun(p)
    /\ call_specs[p].kind = "raise"
    /\ managers' = [managers EXCEPT ![p] = @ + 1]
    /\ error_queue' = PutError(error_queue, p, call_specs[p].err)
    /\ puts' = [puts EXCEPT ![p] = @ + 1]
    /\ pstate' = [pstate EXCEPT ![p] = Finally("raise")]
    /\ UNCHANGED <<call_specs, timeout, raise_on_process_error, pc, idx, now,
                   deadline, join_until, return_queue, return_contents,
                   error_contents, proc_results, proc_errors, terminated, killed,
                   closes,
                   feeder>>
    /\ UNCHANGED <<transportVars, importVars>>

\* A process that ends joins the feeder threads of the queues it has put on:
\* it exits once its message is written, and stays alive until then.
ExitAfter(feeding) == IF feeding = "idle" THEN "exited" ELSE "flushing"

\* finally: manager_inst.close() (line 175), after which the process exits.
ChildClose(p) ==
    /\ pstate[p] = "put"
    /\ CanRun(p)
    /\ closes' = [closes EXCEPT ![p] = @ + 1]
    /\ pstate' = [pstate EXCEPT ![p] = ExitAfter(feeder[p])]
    /\ UNCHANGED <<call_specs, timeout, raise_on_process_error, pc, idx, now,
                   deadline, join_until, return_queue, error_queue, return_contents,
                   error_contents, proc_results, proc_errors, terminated, killed,
                   puts,
                   managers, feeder>>
    /\ UNCHANGED <<transportVars, importVars>>

\* The process dies in the task function without unwinding (os._exit, a crash
\* of the interpreter, the OOM killer): nothing is put on either queue.
ChildDie(p) ==
    /\ pstate[p] = "running"
    /\ call_specs[p].kind = "die"
    /\ managers' = [managers EXCEPT ![p] = @ + 1]
    /\ pstate' = [pstate EXCEPT ![p] = "dead"]
    /\ UNCHANGED <<call_specs, timeout, raise_on_process_error, pc, idx, now,
                   deadline, join_until, return_queue, error_queue, return_contents,
                   error_contents, proc_results, proc_errors, terminated, killed,
                   puts, closes,
                   feeder>>
    /\ UNCHANGED <<transportVars, importVars>>

\* The process dies of the SIGTERM of terminate() or the SIGKILL of kill().
\* When (and, for a process that handles SIGTERM or is blocked in the kernel,
\* whether) this happens is not decided by the code.
ChildSignalled(p) ==
    /\ IsAlive(p)
    /\ p \in terminated \cup killed
    /\ pstate' = [pstate EXCEPT ![p] = "dead"]
    /\ UNCHANGED <<call_specs, timeout, raise_on_process_error, pc, idx, now,
                   deadline, join_until, return_queue, error_queue, return_contents,
                   error_contents, proc_results, proc_errors, terminated, killed,
                   puts, closes,
                   managers, feeder>>
    /\ UNCHANGED <<transportVars, importVars>>

(***************************************************************************)
(* execute_concurrently (lines 190-268), the main process.                 *)
(***************************************************************************)
\* Mutant of RemainingTimeout: the time already spent is not subtracted.
RemainingTimeoutFull(d, t) == Max(0, d)

\* Mutant of RemainingTimeout: the processes are not waited for.
RemainingTimeoutNone(d, t) == 0

\* remaining_timeout = max(0, deadline - time.time()), line 239.
RemainingTimeout(d, t) == Max(0, d - t)

\* The top of the loop of line 238 for process p: block in
\* process.join(timeout=remaining_timeout), or leave the loop after the last.
JoinNext(p) ==
    IF p \in ProcIds
      THEN /\ pc' = "join"
           /\ idx' = p
           /\ join_until' = now + RemainingTimeout(deadline, now)
      ELSE /\ pc' = "read_return"
           /\ idx' = p
           /\ join_until' = join_until

\* process.start() for each process in turn (lines 233-236).
StartProcess ==
    /\ pc = "start"
    /\ idx \in ProcIds
    /\ pstate' = [pstate EXCEPT ![idx] = "running"]
    /\ idx' = idx + 1
    /\ UNCHANGED <<call_specs, timeout, raise_on_process_error, pc, now, deadline,
                   join_until, return_queue, error_queue, return_contents,
                   error_contents, proc_results, proc_errors, terminated, killed,
                   puts, closes,
                   managers, feeder>>
    /\ UNCHANGED <<transportVars, importVars>>

\* All processes are started: enter the loop of line 238.
StartDone ==
    /\ pc = "start"
    /\ idx \notin ProcIds
    /\ JoinNext(0)
    /\ UNCHANGED <<call_specs, timeout, raise_on_process_error, now, deadline,
                   return_queue, error_queue, return_contents, error_contents,
                   proc_results, proc_errors, pstate, terminated, killed, puts,
                   closes,
                   managers, feeder>>
    /\ UNCHANGED <<transportVars, importVars>>

\* A join returns when the process has exited or its timeout has elapsed.
JoinOver == ~IsAlive(idx) \/ now >= join_until

\* Time passes while the main process is blocked in a join, up to the moment
\* the join times out.
Tick ==
    /\ pc \in {"join", "join_term", "join_kill"}
    /\ ~JoinOver
    /\ now' = Min(now + TickStep, join_until)
    /\ UNCHANGED <<call_specs, timeout, raise_on_process_error, pc, idx, deadline,
                   join_until, return_queue, error_queue, return_contents,
                   error_contents, proc_results, proc_errors, pstate, terminated,
                   killed, puts, closes,
                   managers, feeder>>
    /\ UNCHANGED <<transportVars, importVars>>

\* Mutant of NeedsTerminate: terminate() without the test of line 241.
NeedsTerminateAlways(p) == TRUE

\* if process.is_alive(), line 241: the process gets terminate().
NeedsTerminate(p) == IsAlive(p)

\* Mutant of NeedsKill: the second stage of the escalation is left out.
NeedsKillNever(p) == FALSE

\* if process.is_alive(), line 244: the process gets kill().
NeedsKill(p) == IsAlive(p)

\* Lines 240-243: the join on the remaining timeout returns; a process that is
\* still alive is sent terminate() and joined for _TIMEOUT_TERMINATE_PROCESS.
JoinReturns ==
    /\ pc = "join"
    /\ JoinOver
    /\ IF NeedsTerminate(idx)
         THEN /\ terminated' = terminated \cup {idx}
              /\ pc' = "join_term"
              /\ join_until' = now + _TIMEOUT_TERMINATE_PROCESS
              /\ idx' = idx
         ELSE /\ JoinNext(idx + 1)
              /\ terminated' = terminated
    /\ UNCHANGED <<call_specs, timeout, raise_on_process_error, now, deadline,
                   return_queue, error_queue, return_contents, error_contents,
                   proc_results, proc_errors, pstate, killed, puts, closes,
                   managers, feeder>>
    /\ UNCHANGED <<transportVars, importVars>>

\* Lines 243-246: the join after terminate() returns; a process that is still
\* alive is sent kill() and joined for _TIMEOUT_TERMINATE_PROCESS.
JoinTermReturns ==
    /\ pc = "join_term"
    /\ JoinOver
    /\ IF NeedsKill(idx)
         THEN /\ killed' = killed \cup {idx}
              /\ pc' = "join_kill"
              /\ join_until' = now + _TIMEOUT_TERMINATE_PROCESS
              /\ idx' = idx
         ELSE /\ JoinNext(idx + 1)
              /\ killed' = killed
    /\ UNCHANGED <<call_specs, timeout, raise_on_process_error, now, deadline,
                   return_queue, error_queue, return_contents, error_contents,
                   proc_results, proc_errors, pstate, terminated, puts, closes,
                   managers, feeder>>
    /\ UNCHANGED <<transportVars, importVars>>

\* Line 246: the join after kill() returns, whether or not the process exited.
JoinKillReturns ==
    /\ pc = "join_kill"
    /\ JoinOver
    /\ JoinNext(idx + 1)
    /\ UNCHANGED <<call_specs, timeout, raise_on_process_error, now, deadline,
                   return_queue, error_queue, return_contents, error_contents,
                   proc_results, proc_errors, pstate, terminated, killed, puts,
                   closes,
                   managers, feeder>>
    /\ UNCHANGED <<transportVars, importVars>>

\* Mutant of NewList: one slot short.
NewListShort(value) == [p \in 0..(NumSpecs - 2) |-> value]

\* [value] * len(call_specs), lines 248 and 252.
NewList(value) == [p \in 0..(NumSpecs - 1) |-> value]

\* Mutant of AssignById: the slots are filled in the order of arrival.
AssignByArrival(slots, contents) ==
    [p \in DOMAIN slots |-> IF p + 1 \in DOMAIN contents THEN contents[p + 1][2] ELSE slots[p]]

\* for proc_id, x in contents: slots[proc_id] = x (lines 249-250, 253-254):
\* the messages are applied in the order they were read.
RECURSIVE AssignById(_, _)
AssignById(slots, contents) ==
    IF contents = << >>
      THEN slots
      ELSE AssignById([slots EXCEPT ![contents[1][1]] = contents[1][2]], Tail(contents))

\* Mutant of ReadAllFromQueue: one get() and no loop.
ReadOneFromQueue(queue_inst) ==
    IF queue_inst = << >> THEN << >> ELSE <<Head(queue_inst)>>

\* _read_all_from_queue (lines 178-187): get() until queue.Empty. Every
\* process has exited or was sent SIGKILL when the main process gets here, so
\* nothing is put on a queue while it is read: the call reads all of it.
ReadAllFromQueue(queue_inst) == queue_inst

\* queue_inst.get(block=True, timeout=_QUEUE_READ_TIMEOUT), line 184, on a
\* pipe that holds a part of a message: the timeout bounds the wait for the
\* first byte only; get() then reads the length of the message and waits for
\* the rest of it without a timeout. No process is left to write the rest
\* (each has exited, died or was sent SIGKILL), and the main process holds a
\* write end of the pipe itself, so the read sees no end of file either.
GetBlocks == WriteLockHeld

\* Lines 248-250: read the return queue and fill proc_results from it. The
\* main process reads the whole messages and, if a part of a message follows
\* them, stays in get().
ReadReturnQueue ==
    /\ pc = "read_return"
    /\ return_contents' = ReadAllFromQueue(return_queue)
    /\ return_queue' = << >>
    /\ IF GetBlocks
         THEN /\ pc' = "blocked_in_get"
              /\ proc_results' = proc_results
         ELSE /\ pc' = "read_error"
              /\ proc_results' = AssignById(NewList(NO_RESULT), return_contents')
    /\ UNCHANGED <<call_specs, timeout, raise_on_process_error, idx, now, deadline,
                   join_until, error_queue, error_contents, proc_errors, pstate,
                   terminated, killed, puts, closes,
                   managers, feeder>>
    /\ UNCHANGED <<transportVars, importVars>>

\* Lines 252-254: read the error queue and fill proc_errors from it.
ReadErrorQueue ==
    /\ pc = "read_error"
    /\ error_contents' = ReadAllFromQueue(error_queue)
    /\ error_queue' = << >>
    /\ proc_errors' = AssignById(NewList(None), error_contents')
    /\ pc' = "reconcile"
    /\ UNCHANGED <<call_specs, timeout, raise_on_process_error, idx, now, deadline,
                   join_until, return_queue, return_contents, proc_results, pstate,
                   terminated, killed, puts, closes,
                   managers, feeder>>
    /\ UNCHANGED <<transportVars, importVars>>

\* Mutants of MarkMissing: "or" for "and"; and nothing marked at all.
MarkMissingEither(results, errs) ==
    [p \in DOMAIN errs |->
        IF results[p] = NO_RESULT \/ errs[p] = None
          THEN ResultNotReceivedError
          ELSE errs[p]]
MarkMissingNever(results, errs) == errs

\* Lines 258-262: an index with no result and no error gets the synthesized
\* error.
MarkMissing(results, errs) ==
    [p \in DOMAIN errs |->
        IF results[p] = NO_RESULT /\ errs[p] = None
          THEN ResultNotReceivedError
          ELSE errs[p]]

\* any(proc_errors), line 264: None is falsy, a (type, message) pair is truthy.
AnyError(errs) == \E p \in DOMAIN errs : errs[p] # None

\* Mutant of ShouldRaise: the flag is not looked at.
ShouldRaiseIgnoringFlag(flag, errs) == AnyError(errs)

\* if raise_on_process_error and any(proc_errors), line 264.
ShouldRaise(flag, errs) == flag /\ AnyError(errs)

\* Lines 258-268: mark the missing results, then raise ParallelUtilsError or
\* return (proc_results, proc_errors).
Reconcile ==
    /\ pc = "reconcile"
    /\ proc_errors' = MarkMissing(proc_results, proc_errors)
    /\ pc' = IF ShouldRaise(raise_on_process_error, proc_errors')
               THEN "raised"
               ELSE "returned"
    /\ UNCHANGED <<call_specs, timeout, raise_on_process_error, idx, now, deadline,
                   join_until, return_queue, error_queue, return_contents,
                   error_contents, proc_results, pstate, terminated, killed, puts,
                   closes,
                   managers, feeder>>
    /\ UNCHANGED <<transportVars, importVars>>

ExecNext ==
    \/ StartProcess
    \/ StartDone
    \/ Tick
    \/ JoinReturns
    \/ JoinTermReturns
    \/ JoinKillReturns
    \/ ReadReturnQueue
    \/ ReadErrorQueue
    \/ Reconcile
    \/ \E p \in ProcIds : ChildReturn(p)
    \/ \E p \in ProcIds : ChildRaise(p)
    \/ \E p \in ProcIds : ChildClose(p)
    \/ \E p \in ProcIds : ChildDie(p)
    \/ \E p \in ProcIds : ChildSignalled(p)

\* The steps of the main process in execute_concurrently, lines 233-268.
MainStep ==
    \/ StartProcess
    \/ StartDone
    \/ Tick
    \/ JoinReturns
    \/ JoinTermReturns
    \/ JoinKillReturns
    \/ ReadReturnQueue
    \/ ReadErrorQueue
    \/ Reconcile


(***************************************************************************)
(* pigweed_rpc_transport.py: PwHdlcRpcClient (lines 53-168) and            *)
(* PigweedRPCTransport (lines 171-281).                                    *)
(*                                                                         *)
(* One thread calls the transport; a call is one step, except that the     *)
(* caller blocks in the join of PwHdlcRpcClient.close while the worker     *)
(* runs, and in log_queue.get of _read; a second thread calls rpc. A       *)
(* worker thread is at the test of its loop ("check"), in select           *)
(* ("select"), reading and handling what it read ("handling"), or over     *)
(* ("exited"). The decoder of pw_hdlc is the frame codec of the            *)
(* specification: frames between marker bytes, escaped, with one address   *)
(* byte, the payload and a trailing checksum.                              *)
(***************************************************************************)
\* self._worker = None, line 80.
NoThread == 0

\* The packages the imports of lines 31-35 need.
PigweedPackages == {"pw_rpc", "pw_hdlc", "pw_protobuf_compiler"}

\* Lines 28-38: every import of the try block succeeds.
ImportsSucceed(packages) == PigweedPackages \subseteq packages

\* Lines 28-44: the module is imported. An ImportError of one of the imports
\* is caught, and PIGWEED_IMPORT tells whether all of them succeeded.
ImportModule ==
    /\ module_state = "unimported"
    /\ module_state' = "imported"
    /\ PIGWEED_IMPORT' = ImportsSucceed(installed)
    /\ UNCHANGED <<installed, constructed>>
    /\ UNCHANGED <<execVars, transportVars>>

\* Mutant of ClientInitRaises: the test of line 68 is left out.
ClientInitRaisesNever(pigweed_import) == FALSE

\* if not PIGWEED_IMPORT, line 68.
ClientInitRaises(pigweed_import) == ~pigweed_import

\* The message of line 70.
DependencyUnavailable ==
    <<"DependencyUnavailableError",
      "Pigweed python packages are not available in this environment.">>

\* The transport is constructed, lines 174-189: its client is created at
\* line 189, and PwHdlcRpcClient.__init__ raises at lines 68-70 without the
\* packages.
Construct ==
    /\ module_state = "imported"
    /\ constructed[1] = "no"
    /\ constructed' = IF ClientInitRaises(PIGWEED_IMPORT)
                         THEN DependencyUnavailable
                         ELSE <<"ok", "">>
    /\ UNCHANGED <<installed, module_state, PIGWEED_IMPORT>>
    /\ UNCHANGED <<execVars, transportVars>>

\* The module was imported with all its packages and the transport was
\* constructed.
Constructed ==
    /\ installed = PigweedPackages
    /\ module_state = "imported"
    /\ PIGWEED_IMPORT = TRUE
    /\ constructed = <<"ok", "">>

\* _STDOUT_ADDRESS, _DEFAULT_ADDRESS = ord("R"), _JOIN_TIMEOUT_SEC (seconds).
_STDOUT_ADDRESS == 1
_DEFAULT_ADDRESS == 82
_JOIN_TIMEOUT_SEC == 1

(***************************************************************************)
(* The frames of the link. The decoder the worker feeds (decode.           *)
(* FrameDecoder, line 121) is not part of the files modelled; it is the    *)
(* FrameCodec of the specification: a frame lies between two marker bytes, *)
(* a marker or escape byte inside it is escaped, it holds one address byte,*)
(* the payload and a trailing checksum. The decoder works byte by byte,    *)
(* keeps its state between two calls, and hands over every delimited frame *)
(* with the verdict of its integrity check (frame.ok(), line 159).         *)
(***************************************************************************)
\* The marker byte, the escape byte, and the mask of an escaped byte.
FLAG == 126
ESCAPE == 125
ESCAPE_MASK == 32

\* b"\n", line 150.
NEWLINE == 10

\* byte XOR ESCAPE_MASK.
EscapeByte(b) ==
    IF (b \div ESCAPE_MASK) % 2 = 1 THEN b - ESCAPE_MASK ELSE b + ESCAPE_MASK

RECURSIVE SumBytes(_)
SumBytes(bytes) ==
    IF bytes = << >> THEN 0 ELSE Head(bytes) + SumBytes(Tail(bytes))

\* The integrity check of a frame: one byte over the address and the payload.
Checksum(address, data) == (address + SumBytes(data)) % 256

RECURSIVE EscapeBytes(_)
EscapeBytes(bytes) ==
    IF bytes = << >>
      THEN << >>
      ELSE (IF Head(bytes) \in {FLAG, ESCAPE}
              THEN <<ESCAPE, EscapeByte(Head(bytes))>>
              ELSE <<Head(bytes)>>) \o EscapeBytes(Tail(bytes))

\* The bytes the device puts on the link for one frame; fcs is its trailing
\* checksum, right or wrong.
EncodeFrame(address, data, fcs) ==
    <<FLAG>> \o EscapeBytes(<<address>> \o data \o <<fcs>>) \o <<FLAG>>

\* decode.FrameDecoder(), line 121: between frames, nothing buffered.
FrameDecoder == [in_frame |-> FALSE, escaped |-> FALSE, buffer |-> << >>]

\* The frame of the bytes buffered between two markers: address, data, and
\* what frame.ok() returns.
FrameOf(buffer, escaped) ==
    [address |-> buffer[1],
     data    |-> SubSeq(buffer, 2, Len(buffer) - 1),
     ok      |-> /\ ~escaped
                 /\ Len(buffer) >= 2
                 /\ buffer[Len(buffer)] =
                      Checksum(buffer[1], SubSeq(buffer, 2, Len(buffer) - 1))]

\* One byte into the decoder: its next state and the frames it completes.
ProcessByte(state, b) ==
    IF b = FLAG
      THEN [decoder |-> [in_frame |-> TRUE, escaped |-> FALSE, buffer |-> << >>],
            frames  |-> IF state.in_frame /\ state.buffer # << >>
                          THEN <<FrameOf(state.buffer, state.escaped)>>
                          ELSE << >>]
      ELSE IF ~state.in_frame
        THEN [decoder |-> state, frames |-> << >>]
      ELSE IF state.escaped
        THEN [decoder |-> [state EXCEPT !.escaped = FALSE,
                                          !.buffer = Append(@, EscapeByte(b))],
              frames  |-> << >>]
      ELSE IF b = ESCAPE
        THEN [decoder |-> [state EXCEPT !.escaped = TRUE], frames |-> << >>]
      ELSE [decoder |-> [state EXCEPT !.buffer = Append(@, b)],
            frames  |-> << >>]

\* decoder.process_valid_frames(data), line 132: the bytes of data go through
\* the decoder one by one; the decoder after them and the frames they complete.
RECURSIVE process_valid_frames(_, _)
process_valid_frames(state, data) ==
    IF data = << >>
      THEN [decoder |-> state, frames |-> << >>]
      ELSE LET first == ProcessByte(state, Head(data))
               rest  == process_valid_frames(first.decoder, Tail(data))
           IN  [decoder |-> rest.decoder, frames |-> first.frames \o rest.frames]

\* A response message of the lighting service, with its one field, and the
\* bytes payload.SerializeToString() makes of it (line 262): the tag of
\* field 1 and the value, nothing for a field at its default.
LEVEL_TAG == 8
Messages == [level : {0, 10}]
SerializeToString(message) ==
    IF message.level = 0 THEN << >> ELSE <<LEVEL_TAG, message.level>>

\* What the remote answers to a call, as event(**kwargs) of line 261 hands
\* it over: a status, OK or not, with a response message; or an error, for
\* which the call raises RpcError. NoReply: no answer yet.
NoReply == [kind |-> "none", ok |-> FALSE, message |-> [level |-> 0]]
Replies ==
    [kind : {"response"}, ok : BOOLEAN, message : Messages]
      \cup [kind : {"error"}, ok : {FALSE}, message : {[level |-> 0]}]

\* Lines 261-262 once event(**kwargs) is over: the exception of the call is
\* not caught; otherwise rpc returns (ack.ok(), payload.SerializeToString()).
RpcResult(reply) ==
    IF reply.kind = "error" THEN "RpcError" ELSE "response"
RpcValue(reply) ==
    IF reply.kind = "error"
      THEN << >>
      ELSE <<reply.ok, SerializeToString(reply.message)>>

\* The threads that call start() at the same time.
Starters == {"A", "B"}

\* State after PigweedRPCTransport.__init__ (lines 174-189, 78-81).
TransportNew ==
    /\ serial_open = FALSE
    /\ cloexec = FALSE
    /\ locked = FALSE
    /\ _stop_event = FALSE
    /\ _worker = NoThread
    /\ threads = << >>
    /\ caller = "idle"
    /\ outcome = <<"__init__", "ok">>
    /\ elapsed = 0
    /\ wait_limit = 0
    /\ sent = 0
    /\ rx = << >>
    /\ decoder = FrameDecoder
    /\ frames = << >>
    /\ wire_read = << >>
    /\ yielded = << >>
    /\ handled = << >>
    /\ rpc_packets = << >>
    /\ log_puts = << >>
    /\ log_queue = << >>
    /\ reads = << >>
    /\ rpc_caller = "idle"
    /\ rpc_outcome = <<"rpc", "none">>
    /\ rpc_reply = NoReply
    /\ rpc_value = << >>
    /\ starters = [c \in Starters |-> "idle"]

\* threading.Thread.is_alive() of thread t: started and not over.
ThreadAlive(t) == threads[t] \notin {"created", "exited"}

\* Mutant of is_alive: the thread is not asked whether it is alive.
is_alive_unasked == _worker # NoThread

\* PwHdlcRpcClient.is_alive, lines 83-85.
is_alive == _worker # NoThread /\ ThreadAlive(_worker)

\* PigweedRPCTransport.is_open, lines 191-197.
is_open == serial_open /\ is_alive

\* Mutant of ShouldCreateWorker: the test of line 91 is left out.
ShouldCreateWorkerAlways(worker) == TRUE

\* if self._worker is None, line 91.
ShouldCreateWorker(worker) == worker = NoThread

\* Mutant of ClearStop: start() leaves the stop event as it finds it.
ClearStopNever(stop_set) == stop_set

\* if self._stop_event.is_set(): self._stop_event.clear(), lines 89-90: the
\* value of the stop event after the two lines.
ClearStop(stop_set) == IF stop_set THEN FALSE ELSE stop_set

\* PwHdlcRpcClient.start, lines 87-93: the stop event is cleared; a worker
\* thread is created and started if there is no worker. The thread begins
\* read_and_process_data with a decoder of its own (line 121).
ClientStart(call) ==
    /\ _stop_event' = ClearStop(_stop_event)
    /\ IF ShouldCreateWorker(_worker)
         THEN /\ Len(threads) < MaxThreads
              /\ threads' = Append(threads, "check")
              /\ _worker' = Len(threads) + 1
              /\ outcome' = <<call, "created">>
              /\ decoder' = FrameDecoder
              /\ frames' = << >>
              /\ wire_read' = << >>
              /\ yielded' = << >>
         ELSE /\ UNCHANGED <<threads, _worker, loopVars>>
              /\ outcome' = <<call, "kept">>

\* PwHdlcRpcClient.start called by thread c while another thread may be in
\* it too: start() takes no lock, so a thread can be preempted between two
\* of its lines. The call begins at the test of line 89.
StartCall(c) ==
    /\ starters[c] = "idle"
    /\ starters' = [starters EXCEPT ![c] = "line 89"]
    /\ UNCHANGED <<handleVars, _stop_event, _worker, threads, caller, outcome,
                   waitVars, sent, rx, loopVars, sinkVars, log_queue, reads,
                   rpcVars>>
    /\ UNCHANGED <<execVars, importVars>>

\* Lines 89-90: the stop event is cleared.
StartClearStop(c) ==
    /\ starters[c] = "line 89"
    /\ _stop_event' = ClearStop(_stop_event)
    /\ starters' = [starters EXCEPT ![c] = "line 91"]
    /\ UNCHANGED <<handleVars, _worker, threads, caller, outcome, waitVars, sent,
                   rx, loopVars, sinkVars, log_queue, reads, rpcVars>>
    /\ UNCHANGED <<execVars, importVars>>

\* Line 91: if self._worker is None.
StartTestWorker(c) ==
    /\ starters[c] = "line 91"
    /\ starters' = [starters EXCEPT ![c] =
                      IF ShouldCreateWorker(_worker) THEN "line 92" ELSE "returned"]
    /\ UNCHANGED <<handleVars, _stop_event, _worker, threads, caller, outcome,
                   waitVars, sent, rx, loopVars, sinkVars, log_queue, reads,
                   rpcVars>>
    /\ UNCHANGED <<execVars, importVars>>

\* Line 92: a thread is created, not started yet, and self._worker refers
\* to it.
StartCreateThread(c) ==
    /\ starters[c] = "line 92"
    /\ Len(threads) < MaxThreads
    /\ threads' = Append(threads, "created")
    /\ _worker' = Len(threads) + 1
    /\ starters' = [starters EXCEPT ![c] = "line 93"]
    /\ UNCHANGED <<handleVars, _stop_event, caller, outcome, waitVars, sent, rx,
                   loopVars, sinkVars, log_queue, reads, rpcVars>>
    /\ UNCHANGED <<execVars, importVars>>

\* Line 93: self._worker.start() starts the thread self._worker refers to
\* now, which begins read_and_process_data; Thread.start raises RuntimeError
\* for a thread that was started before.
StartLaunchThread(c) ==
    /\ starters[c] = "line 93"
    /\ IF threads[_worker] = "created"
         THEN /\ threads' = [threads EXCEPT ![_worker] = "check"]
              /\ starters' = [starters EXCEPT ![c] = "returned"]
              /\ decoder' = FrameDecoder
              /\ frames' = << >>
              /\ wire_read' = << >>
              /\ yielded' = << >>
         ELSE /\ starters' = [starters EXCEPT ![c] = "RuntimeError"]
              /\ UNCHANGED <<threads, loopVars>>
    /\ UNCHANGED <<handleVars, _stop_event, _worker, caller, outcome, waitVars,
                   sent, rx, sinkVars, log_queue, reads, rpcVars>>
    /\ UNCHANGED <<execVars, importVars>>

\* client.start() called on its own.
Start ==
    /\ caller = "idle"
    /\ ClientStart("start")
    /\ UNCHANGED <<handleVars, caller, waitVars, sent, rx, sinkVars, log_queue,
                   reads, rpcVars>>
    /\ UNCHANGED <<execVars, importVars, starters>>

\* Mutant of SerialOpenRaises: a port that is open is opened again.
SerialOpenRaisesUnavailableOnly(port_open, available) == ~available

\* self._serial.open(), line 207: serial.Serial.open raises SerialException
\* for a port that is already open and for one that cannot be opened.
SerialOpenRaises(port_open, available) == port_open \/ ~available

\* PigweedRPCTransport._open, lines 205-211. serial.open() raises when the
\* port is already open or the link is not there; otherwise the handle is
\* opened, FD_CLOEXEC is set on it and the client is started.
Open ==
    /\ caller = "idle"
    /\ \E available \in BOOLEAN :
          IF SerialOpenRaises(serial_open, available)
            THEN /\ outcome' = <<"_open", "SerialException">>
                 /\ UNCHANGED <<handleVars, _stop_event, _worker, threads, caller,
                                loopVars>>
            ELSE /\ serial_open' = TRUE
                 /\ cloexec' = TRUE
                 /\ ClientStart("_open")
                 /\ UNCHANGED <<locked, caller>>
    /\ UNCHANGED <<waitVars, sent, rx, sinkVars, log_queue, reads, rpcVars>>
    /\ UNCHANGED <<execVars, importVars, starters>>

\* The flock on the open handle is taken outside this file; line 202 only
\* releases it.
LockHandle ==
    /\ serial_open
    /\ ~locked
    /\ locked' = TRUE
    /\ UNCHANGED <<serial_open, cloexec, _stop_event, _worker, threads, caller,
                   outcome, waitVars, sent, rx, loopVars, sinkVars, log_queue,
                   reads, rpcVars>>
    /\ UNCHANGED <<execVars, importVars, starters>>

\* Lines 202-203, once self._hdlc_client.close() has returned: fileno()
\* raises on a port that is not open; otherwise the lock is released and
\* the handle closed, and what was not read from it is gone.
ReleaseAndCloseHandle ==
    IF serial_open
      THEN /\ locked' = FALSE
           /\ serial_open' = FALSE
           /\ cloexec' = FALSE
           /\ rx' = << >>
           /\ outcome' = <<"_close", "ok">>
      ELSE /\ UNCHANGED <<locked, serial_open, cloexec, rx>>
           /\ outcome' = <<"_close", "PortNotOpenError">>

\* Mutant of MustJoin: close does not wait for the worker.
MustJoinNever(worker) == FALSE

\* if self._worker is not None, line 98: close joins the worker.
MustJoin(worker) == worker # NoThread

\* PwHdlcRpcClient.close, lines 95-104, called on its own: the stop event is
\* set; with a worker, the caller blocks in its join.
ClientClose ==
    /\ caller = "idle"
    /\ _stop_event' = TRUE
    /\ IF ~MustJoin(_worker)
         THEN /\ outcome' = <<"close", "ok">>
              /\ UNCHANGED <<caller, waitVars>>
         ELSE /\ caller' = "join_client"
              /\ elapsed' = 0
              /\ wait_limit' = _JOIN_TIMEOUT_SEC
              /\ outcome' = outcome
    /\ UNCHANGED <<handleVars, _worker, threads, sent, rx, loopVars, sinkVars,
                   log_queue, reads, rpcVars>>
    /\ UNCHANGED <<execVars, importVars, starters>>

\* PigweedRPCTransport._close, lines 199-203: self._hdlc_client.close()
\* first; with a worker, the caller blocks in its join.
Close ==
    /\ caller = "idle"
    /\ _stop_event' = TRUE
    /\ IF ~MustJoin(_worker)
         THEN /\ ReleaseAndCloseHandle
              /\ UNCHANGED <<caller, waitVars>>
         ELSE /\ caller' = "join_transport"
              /\ elapsed' = 0
              /\ wait_limit' = _JOIN_TIMEOUT_SEC
              /\ UNCHANGED <<handleVars, rx, outcome>>
    /\ UNCHANGED <<_worker, threads, sent, loopVars, sinkVars, log_queue, reads,
                   rpcVars>>
    /\ UNCHANGED <<execVars, importVars, starters>>

\* Lines 99-104: the join returns because the worker is over; the reference
\* to it is dropped, and _close goes on to lines 202-203.
JoinWorkerReturns ==
    /\ caller \in {"join_client", "join_transport"}
    /\ ~ThreadAlive(_worker)
    /\ _worker' = NoThread
    /\ caller' = "idle"
    /\ IF caller = "join_transport"
         THEN ReleaseAndCloseHandle
         ELSE /\ outcome' = <<"close", "ok">>
              /\ UNCHANGED <<handleVars, rx>>
    /\ UNCHANGED <<_stop_event, threads, waitVars, sent, loopVars, sinkVars,
                   log_queue, reads, rpcVars>>
    /\ UNCHANGED <<execVars, importVars, starters>>

\* Mutant of JoinTimedOut: a worker that is still alive is not reported.
JoinTimedOutNever(worker_alive) == FALSE

\* if self._worker.is_alive(), line 100, once the join of line 99 is over.
JoinTimedOut(worker_alive) == worker_alive

\* Lines 99-103: the join times out after _JOIN_TIMEOUT_SEC with the worker
\* still alive, and close raises DeviceError; the exception leaves _close
\* before lines 202-203.
JoinWorkerTimesOut ==
    /\ caller \in {"join_client", "join_transport"}
    /\ elapsed >= wait_limit
    /\ ThreadAlive(_worker)
    /\ caller' = "idle"
    /\ IF JoinTimedOut(ThreadAlive(_worker))
         THEN /\ outcome' = <<IF caller = "join_transport" THEN "_close" ELSE "close",
                              "DeviceError">>
              /\ UNCHANGED <<handleVars, rx, _worker>>
         ELSE /\ _worker' = NoThread
              /\ IF caller = "join_transport"
                   THEN ReleaseAndCloseHandle
                   ELSE /\ outcome' = <<"close", "ok">>
                        /\ UNCHANGED <<handleVars, rx>>
    /\ UNCHANGED <<_stop_event, threads, waitVars, sent, loopVars, sinkVars,
                   log_queue, reads, rpcVars>>
    /\ UNCHANGED <<execVars, importVars, starters>>

\* A second goes by while the caller is blocked in a join or in a get of the
\* log queue. A worker that has been told to stop and is not inside a handler
\* is over sooner: select returns within _SELECT_TIMEOUT_SEC (line 49), a
\* tenth of a second.
SecondPasses ==
    /\ caller \in {"join_client", "join_transport", "read"}
    /\ elapsed < wait_limit
    /\ ~(_stop_event /\ \E t \in DOMAIN threads : threads[t] \in {"check", "select"})
    /\ elapsed' = elapsed + 1
    /\ UNCHANGED <<handleVars, _stop_event, _worker, threads, caller, outcome,
                   wait_limit, sent, rx, loopVars, sinkVars, log_queue, reads,
                   rpcVars>>
    /\ UNCHANGED <<execVars, importVars, starters>>

\* PigweedRPCTransport.is_open called, lines 191-197.
IsOpen ==
    /\ caller = "idle"
    /\ outcome' = <<"is_open", IF is_open THEN "True" ELSE "False">>
    /\ UNCHANGED <<handleVars, _stop_event, _worker, threads, caller, waitVars,
                   sent, rx, loopVars, sinkVars, log_queue, reads, rpcVars>>
    /\ UNCHANGED <<execVars, importVars, starters>>

\* PigweedRPCTransport._read(size, timeout), lines 213-226: the caller blocks
\* in self._hdlc_client.log_queue.get(timeout=timeout).
Read ==
    /\ caller = "idle"
    /\ \E read_timeout \in 0..MaxReadTimeout : wait_limit' = read_timeout
    /\ caller' = "read"
    /\ elapsed' = 0
    /\ UNCHANGED <<handleVars, _stop_event, _worker, threads, outcome, sent, rx,
                   loopVars, sinkVars, log_queue, reads, rpcVars>>
    /\ UNCHANGED <<execVars, importVars, starters>>

\* Mutant of QueueGet: the chunk is returned and left on the queue.
QueuePeek(queue_inst) == queue_inst

\* What queue.Queue.get leaves on the queue: all but its first item.
QueueGet(queue_inst) == Tail(queue_inst)

\* Line 226: the queue holds a chunk, get returns the first one.
ReadReturnsChunk ==
    /\ caller = "read"
    /\ log_queue # << >>
    /\ reads' = Append(reads, Head(log_queue))
    /\ log_queue' = QueueGet(log_queue)
    /\ outcome' = <<"_read", "chunk">>
    /\ caller' = "idle"
    /\ UNCHANGED <<handleVars, _stop_event, _worker, threads, waitVars, sent, rx,
                   loopVars, sinkVars, rpcVars>>
    /\ UNCHANGED <<execVars, importVars, starters>>

\* Lines 227-228: the timeout is over with the queue empty, get raises
\* queue.Empty and _read returns b"".
ReadReturnsEmpty ==
    /\ caller = "read"
    /\ log_queue = << >>
    /\ elapsed >= wait_limit
    /\ outcome' = <<"_read", "empty">>
    /\ caller' = "idle"
    /\ UNCHANGED <<handleVars, _stop_event, _worker, threads, waitVars, sent, rx,
                   loopVars, sinkVars, log_queue, reads, rpcVars>>
    /\ UNCHANGED <<execVars, importVars, starters>>

\* PigweedRPCTransport.rpc, lines 244-262, called by a thread of its own: the
\* request is written to the handle (line 74), which raises when the port is
\* not open; then event(**kwargs) blocks until the worker has processed the
\* response (line 261). No timeout is given to the call.
Rpc ==
    /\ rpc_caller = "idle"
    /\ IF serial_open
         THEN /\ rpc_caller' = "pending"
              /\ rpc_outcome' = rpc_outcome
         ELSE /\ rpc_caller' = rpc_caller
              /\ rpc_outcome' = <<"rpc", "PortNotOpenError">>
    /\ rpc_reply' = NoReply
    /\ rpc_value' = << >>
    /\ UNCHANGED <<handleVars, _stop_event, _worker, threads, caller, outcome,
                   waitVars, sent, rx, loopVars, sinkVars, log_queue, reads>>
    /\ UNCHANGED <<execVars, importVars, starters>>

\* An address with no handler, line 165.
OTHER_ADDRESS == 2

\* The frames the device sends: to the RPC client, to the log, or to an
\* address nobody handles; the k-th one carries k in its payload, between a
\* marker byte and an escape byte when k is odd, alone when it is even.
Addresses == {_DEFAULT_ADDRESS, _STDOUT_ADDRESS, OTHER_ADDRESS}
Payload(k) == IF k % 2 = 1 THEN <<FLAG, k, ESCAPE>> ELSE <<k>>

\* The device puts one more frame on the open link, with the right checksum
\* or, damaged on the way, with a wrong one; it sends no more than limit
\* frames.
DeviceSend(limit) ==
    /\ serial_open
    /\ sent < limit
    /\ sent' = sent + 1
    /\ \E address \in Addresses, damaged \in BOOLEAN :
          LET data == Payload(sent + 1)
              fcs  == (Checksum(address, data) + (IF damaged THEN 1 ELSE 0)) % 256
          IN  rx' = rx \o EncodeFrame(address, data, fcs)
    /\ UNCHANGED <<handleVars, _stop_event, _worker, threads, caller, outcome,
                   waitVars, loopVars, sinkVars, log_queue, reads, rpcVars>>
    /\ UNCHANGED <<execVars, importVars, starters>>

\* Mutant of LoopTest: the loop does not look at the stop event.
LoopTestIgnoresStop(stop_set) == "select"

\* while not self._stop_event.is_set(), line 122: the loop is left, and the
\* thread over, when the event is set; otherwise select is called.
LoopTest(stop_set) == IF stop_set THEN "exited" ELSE "select"

\* read_and_process_data, line 122: while not self._stop_event.is_set().
WorkerCheck(t) ==
    /\ threads[t] = "check"
    /\ threads' = [threads EXCEPT ![t] = LoopTest(_stop_event)]
    /\ UNCHANGED <<handleVars, _stop_event, _worker, caller, outcome, waitVars,
                   sent, rx, loopVars, sinkVars, log_queue, reads, rpcVars>>
    /\ UNCHANGED <<execVars, importVars, starters>>

\* Lines 123-131: select times out, or the read returns nothing or raises
\* (data = None): back to the test of the loop.
WorkerSelectIdle(t) ==
    /\ threads[t] = "select"
    /\ serial_open
    /\ threads' = [threads EXCEPT ![t] = "check"]
    /\ UNCHANGED <<handleVars, _stop_event, _worker, caller, outcome, waitVars,
                   sent, rx, loopVars, sinkVars, log_queue, reads, rpcVars>>
    /\ UNCHANGED <<execVars, importVars, starters>>

\* Mutant of LoopDecoder: a decoder is created for every read.
LoopDecoderPerRead(current) == FrameDecoder

\* The decoder a read is fed to: the one created before the loop, line 121.
LoopDecoder(current) == current

\* Lines 123-132: the handle is readable, some of its bytes are read and fed
\* to the decoder; the frames they complete are to be handled.
WorkerSelectData(t) ==
    /\ threads[t] = "select"
    /\ serial_open
    /\ rx # << >>
    /\ \E n \in 1..Min(Len(rx), MaxChunk) :
          LET data == SubSeq(rx, 1, n)
              fed  == process_valid_frames(LoopDecoder(decoder), data)
          IN  /\ rx' = SubSeq(rx, n + 1, Len(rx))
              /\ decoder' = fed.decoder
              /\ frames' = fed.frames
              /\ yielded' = yielded \o fed.frames
              /\ wire_read' = wire_read \o data
    /\ threads' = [threads EXCEPT ![t] = "handling"]
    /\ UNCHANGED <<handleVars, _stop_event, _worker, caller, outcome, waitVars,
                   sent, sinkVars, log_queue, reads, rpcVars>>
    /\ UNCHANGED <<execVars, importVars, starters>>

\* Mutant of Route: the test of frame.ok() is left out.
RouteUnchecked(frame) ==
    IF frame.address = _DEFAULT_ADDRESS THEN "rpc"
    ELSE IF frame.address = _STDOUT_ADDRESS THEN "log"
    ELSE "unhandled"

\* Mutant of Route: every address but the RPC address goes to the log.
RouteLogByDefault(frame) ==
    IF ~frame.ok THEN "discarded"
    ELSE IF frame.address = _DEFAULT_ADDRESS THEN "rpc"
    ELSE "log"

\* _handle_frame, lines 159-166: where a frame goes.
Route(frame) ==
    IF ~frame.ok THEN "discarded"
    ELSE IF frame.address = _DEFAULT_ADDRESS THEN "rpc"
    ELSE IF frame.address = _STDOUT_ADDRESS THEN "log"
    ELSE "unhandled"

\* Mutant of QueuePut: the newest chunk goes to the head of the queue.
QueuePutFirst(queue_inst, item) == <<item>> \o queue_inst

\* self.log_queue.put, line 150.
QueuePut(queue_inst, item) == Append(queue_inst, item)

\* Mutant of AfterException: the exception of a handler ends the thread.
AfterExceptionExit(position) == "exited"

\* Lines 167-168: the exception of a handler is caught and logged, and the
\* worker goes on where it was.
AfterException(position) == position

\* Line 133 and _handle_frame, lines 152-168, for the next frame of the read.
\* The RPC client may take the packet for the answer to the pending call,
\* which then ends; a handler may raise.
WorkerHandleFrame(t) ==
    /\ threads[t] = "handling"
    /\ frames # << >>
    /\ frames' = Tail(frames)
    /\ LET frame == Head(frames)
           route == Route(frame)
       IN  \E raises \in (IF route \in {"rpc", "log"} THEN BOOLEAN ELSE {FALSE}),
              reply \in (IF route = "rpc" /\ rpc_caller = "pending"
                           THEN Replies \cup {NoReply} ELSE {NoReply}) :
             /\ ~(raises /\ reply # NoReply)
             /\ handled' = Append(handled, [frame |-> frame, raised |-> raises])
             /\ rpc_packets' = IF route = "rpc" THEN Append(rpc_packets, frame)
                                                ELSE rpc_packets
             /\ IF route = "log" /\ ~raises
                  THEN /\ log_queue' = QueuePut(log_queue, frame.data \o <<NEWLINE>>)
                       /\ log_puts' = Append(log_puts, frame)
                  ELSE UNCHANGED <<log_queue, log_puts>>
             /\ IF reply # NoReply
                  THEN /\ rpc_caller' = "idle"
                       /\ rpc_reply' = reply
                       /\ rpc_outcome' = <<"rpc", RpcResult(reply)>>
                       /\ rpc_value' = RpcValue(reply)
                  ELSE UNCHANGED rpcVars
             /\ threads' = [threads EXCEPT ![t] =
                              IF raises THEN AfterException("handling") ELSE "handling"]
    /\ UNCHANGED <<handleVars, _stop_event, _worker, caller, outcome, waitVars,
                   sent, rx, decoder, wire_read, yielded, reads>>
    /\ UNCHANGED <<execVars, importVars, starters>>

\* Lines 132-133 done for the frames of this read: back to the test of the
\* loop.
WorkerHandled(t) ==
    /\ threads[t] = "handling"
    /\ frames = << >>
    /\ threads' = [threads EXCEPT ![t] = "check"]
    /\ UNCHANGED <<handleVars, _stop_event, _worker, caller, outcome, waitVars,
                   sent, rx, loopVars, sinkVars, log_queue, reads, rpcVars>>
    /\ UNCHANGED <<execVars, importVars, starters>>

\* Line 123 raises (the port is not open, the device is gone): the exception
\* is not caught and ends the thread.
WorkerCrash(t) ==
    /\ threads[t] = "select"
    /\ threads' = [threads EXCEPT ![t] = "exited"]
    /\ UNCHANGED <<handleVars, _stop_event, _worker, caller, outcome, waitVars,
                   sent, rx, loopVars, sinkVars, log_queue, reads, rpcVars>>
    /\ UNCHANGED <<execVars, importVars, starters>>

\* The transport over its life: opened, closed and opened again, while the
\* device sends frames.
TransportNext ==
    \/ Start
    \/ Open
    \/ LockHandle
    \/ ClientClose
    \/ Close
    \/ JoinWorkerReturns
    \/ JoinWorkerTimesOut
    \/ SecondPasses
    \/ IsOpen
    \/ DeviceSend(MaxFrames)
    \/ \E t \in DOMAIN threads : WorkerCheck(t)
    \/ \E t \in DOMAIN threads : WorkerSelectIdle(t)
    \/ \E t \in DOMAIN threads : WorkerSelectData(t)
    \/ \E t \in DOMAIN threads : WorkerHandleFrame(t)
    \/ \E t \in DOMAIN threads : WorkerHandled(t)
    \/ \E t \in DOMAIN threads : WorkerCrash(t)

\* The link of a transport that is opened once: the device sends frames, the
\* worker reads and dispatches them, and the caller reads the log.
LinkNext ==
    \/ Open
    \/ SecondPasses
    \/ Read
    \/ ReadReturnsChunk
    \/ ReadReturnsEmpty
    \/ DeviceSend(MaxFrames + 1)
    \/ \E t \in DOMAIN threads : WorkerCheck(t)
    \/ \E t \in DOMAIN threads : WorkerSelectIdle(t)
    \/ \E t \in DOMAIN threads : WorkerSelectData(t)
    \/ \E t \in DOMAIN threads : WorkerHandleFrame(t)
    \/ \E t \in DOMAIN threads : WorkerHandled(t)
    \/ \E t \in DOMAIN threads : WorkerCrash(t)

\* No thread is inside start().
NoStarterInside == \A c \in Starters : starters[c] \in {"idle", "returned", "RuntimeError"}

\* Two threads call start() at the same time; the transport is opened before
\* their calls or after them.
RaceNext ==
    \/ NoStarterInside /\ Open
    \/ \E c \in Starters : StartCall(c)
    \/ \E c \in Starters : StartClearStop(c)
    \/ \E c \in Starters : StartTestWorker(c)
    \/ \E c \in Starters : StartCreateThread(c)
    \/ \E c \in Starters : StartLaunchThread(c)
    \/ DeviceSend(MaxFrames)
    \/ \E t \in DOMAIN threads : WorkerCheck(t)
    \/ \E t \in DOMAIN threads : WorkerSelectIdle(t)
    \/ \E t \in DOMAIN threads : WorkerCrash(t)

\* A thread calls rpc() while another opens and closes the transport.
RpcNext ==
    \/ Open
    \/ Close
    \/ JoinWorkerReturns
    \/ JoinWorkerTimesOut
    \/ SecondPasses
    \/ Rpc
    \/ DeviceSend(MaxFrames)
    \/ \E t \in DOMAIN threads : WorkerCheck(t)
    \/ \E t \in DOMAIN threads : WorkerSelectIdle(t)
    \/ \E t \in DOMAIN threads : WorkerSelectData(t)
    \/ \E t \in DOMAIN threads : WorkerHandleFrame(t)
    \/ \E t \in DOMAIN threads : WorkerHandled(t)
    \/ \E t \in DOMAIN threads : WorkerCrash(t)

(***************************************************************************)
(* The specifications. Each subsystem runs on its own: the other is in its *)
(* initial state and takes no step.                                        *)
(***************************************************************************)
\* No call of execute_concurrently is under way.
ExecIdle ==
    /\ call_specs = << >>
    /\ timeout = 0
    /\ raise_on_process_error = FALSE
    /\ pc = "idle"
    /\ idx = 0
    /\ now = 0
    /\ deadline = 0
    /\ join_until = 0
    /\ return_queue = << >>
    /\ error_queue = << >>
    /\ return_contents = << >>
    /\ error_contents = << >>
    /\ proc_results = << >>
    /\ proc_errors = << >>
    /\ pstate = << >>
    /\ terminated = {}
    /\ killed = {}
    /\ puts = << >>
    /\ closes = << >>
    /\ managers = << >>
    /\ feeder = << >>

\* execute_concurrently is called; the transport stays as constructed.
ExecInit ==
    /\ ExecInputs(0, MaxProcs)
    /\ FitThePipe
    /\ ExecSetup
    /\ TransportNew
    /\ Constructed

\* A call of execute_concurrently with one call spec or more, whose functions
\* may return values of any size.
PipeInit == ExecInputs(1, MaxProcs) /\ ExecSetup /\ TransportNew /\ Constructed

\* The calls in which every function that returns does so before the
\* deadline of line 232; a function that has not returned by then runs on
\* until its process is terminated.
PipeNext ==
    \/ MainStep
    \/ \E p \in ProcIds : now < deadline /\ ChildReturn(p)
    \/ \E p \in ProcIds : ChildRaise(p)
    \/ \E p \in ProcIds : ChildClose(p)
    \/ \E p \in ProcIds : ChildDie(p)
    \/ \E p \in ProcIds : ChildSignalled(p)

\* The transport is constructed; no call of execute_concurrently is under way.
TransportInit == TransportNew /\ Constructed /\ ExecIdle

\* The module is about to be imported in an environment with some of the
\* Pigweed packages, all of them or none; no transport exists yet.
ImportInit ==
    /\ installed \in SUBSET PigweedPackages
    /\ module_state = "unimported"
    /\ PIGWEED_IMPORT = FALSE
    /\ constructed = <<"no", "">>
    /\ TransportNew
    /\ ExecIdle

\* The module is imported, a transport constructed and, if that succeeded,
\* opened and used.
ImportNext ==
    \/ ImportModule
    \/ Construct
    \/ constructed[1] = "ok" /\ Open
    \/ constructed[1] = "ok" /\ LockHandle
    \/ constructed[1] = "ok" /\ IsOpen
    \/ constructed[1] = "ok" /\ Rpc
    \/ constructed[1] = "ok" /\ DeviceSend(MaxFrames)

\* execute_concurrently is called with the three call specs of the scenario
\* of a task that never returns: the task of call_specs[1] hangs, and
\* raise_on_process_error is False.
HangScenarioInit ==
    /\ ExecInputs(3, 3)
    /\ FitThePipe
    /\ call_specs[1].kind = "hang"
    /\ ~raise_on_process_error
    /\ ExecSetup
    /\ TransportNew
    /\ Constructed

SpecExec == ExecInit /\ [][ExecNext]_vars
SpecHangScenario == HangScenarioInit /\ [][ExecNext]_vars
SpecPipe == PipeInit /\ [][PipeNext]_vars
SpecTransport == TransportInit /\ [][TransportNext]_vars
SpecLink == TransportInit /\ [][LinkNext]_vars
SpecRpc == TransportInit /\ [][RpcNext]_vars
SpecImport == ImportInit /\ [][ImportNext]_vars
SpecRace == TransportInit /\ [][RaceNext]_vars

(***************************************************************************)
(* Properties of execute_concurrently.                                     *)
(***************************************************************************)
\* execute_concurrently is over: it returned (results, errors) or raised.
Finished == pc \in {"returned", "raised"}

\* The task function of call_specs[p] returned and its value was put.
HasReturned(p) == call_specs[p].kind = "return" /\ puts[p] = 1

\* The task function of call_specs[p] raised and its error was put.
HasRaised(p) == call_specs[p].kind = "raise" /\ puts[p] = 1

\* Messages <<p, x>> arrived in another order than that of the call specs.
OutOfOrder(contents) ==
    \E j, k \in DOMAIN contents : j < k /\ contents[j][1] > contents[k][1]

\* C1: when execute_concurrently(call_specs, timeout, False) returns, the result
\* list and the error list both have len(call_specs) entries, and entry i of
\* each is about call_specs[i]: the result is the value of call_specs[i] or
\* NO_RESULT, the error is None, the error of call_specs[i] or the synthesized
\* one.
C1_ListsMatchCallSpecs ==
    (pc = "returned" /\ ~raise_on_process_error) =>
        /\ DOMAIN proc_results = 0..(NumSpecs - 1)
        /\ DOMAIN proc_errors = 0..(NumSpecs - 1)
        /\ \A i \in ProcIds :
              /\ proc_results[i] \in {call_specs[i].ret, NO_RESULT}
              /\ proc_errors[i] \in {None, call_specs[i].err, ResultNotReceivedError}
              /\ call_specs[i].kind # "return" => proc_results[i] = NO_RESULT
              /\ call_specs[i].kind # "raise" =>
                    proc_errors[i] \in {None, ResultNotReceivedError}

\* C1's case: two call specs, one task raised, the other never returned, and
\* the call returned.
C1_Witness ==
    /\ pc = "returned"
    /\ ~raise_on_process_error
    /\ NumSpecs = 2
    /\ \E i, j \in ProcIds :
          /\ HasRaised(i)
          /\ call_specs[j].kind = "hang"

\* C2: after collection every index holds exactly one of a result and an error:
\* either a value that was received for it and the error None, or NO_RESULT and
\* an (error kind, message) pair.
C2_ExactlyOneOfResultAndError ==
    Finished =>
        \A i \in ProcIds :
            \/ /\ proc_results[i] # NO_RESULT
               /\ \E k \in DOMAIN return_contents :
                     return_contents[k] = <<i, proc_results[i]>>
               /\ proc_errors[i] = None
            \/ /\ proc_results[i] = NO_RESULT
               /\ proc_errors[i] # None
               /\ Len(proc_errors[i]) = 2

\* C2's case: the collection is over with a result at one index and, at
\* another that had neither a result nor an error, the synthesized error.
C2_Witness ==
    /\ Finished
    /\ \E i, j \in ProcIds :
          /\ proc_results[i] # NO_RESULT
          /\ puts[j] = 0
          /\ proc_errors[j] = ResultNotReceivedError

\* C3: the results and errors are in the order of the call specs whatever the
\* order in which the processes complete and their messages arrive: the value a
\* task returned is at the index of its call spec, and so is the error a task
\* raised.
C3_OrderOfCallSpecs ==
    Finished =>
        \A i \in ProcIds :
            /\ HasReturned(i) => proc_results[i] = call_specs[i].ret
            /\ HasRaised(i) => proc_errors[i] = call_specs[i].err
            /\ puts[i] = 0 => proc_results[i] = NO_RESULT

\* C3's case: the process of a later call spec completed first and its result
\* arrived before that of an earlier call spec.
C3_Witness ==
    /\ Finished
    /\ OutOfOrder(return_contents)
    /\ \A p \in ProcIds : pstate[p] = "exited"

\* What index j holds when only the outcome of its own process decides it.
OwnResult(j) == IF HasReturned(j) THEN call_specs[j].ret ELSE NO_RESULT
OwnError(j) ==
    IF HasRaised(j) THEN call_specs[j].err
    ELSE IF OwnResult(j) = NO_RESULT THEN ResultNotReceivedError
    ELSE None

\* C4: with raise_on_process_error=False a task that raises gets NO_RESULT and
\* (exception type name, message) at its index, every other index holds what the
\* outcome of its own process alone decides, and execute_concurrently returns.
C4_RaisingTaskIsIsolated ==
    (Finished /\ ~raise_on_process_error) =>
        /\ pc = "returned"
        /\ \A i \in ProcIds :
              HasRaised(i) =>
                  /\ proc_results[i] = NO_RESULT
                  /\ proc_errors[i] = <<"RuntimeError", MessageNames[i + 1]>>
                  /\ \A j \in ProcIds \ {i} :
                        /\ proc_results[j] = OwnResult(j)
                        /\ proc_errors[j] = OwnError(j)

\* C4's case: a task raised, another returned a value, and the call is over.
C4_Witness ==
    /\ Finished
    /\ ~raise_on_process_error
    /\ \E i, j \in ProcIds :
          /\ HasRaised(i)
          /\ HasReturned(j)
          /\ call_specs[j].ret # NO_RESULT

\* The scenario of C5: three call specs, the tasks of 0 and 2 return, the task
\* of 1 never returns, and the raise policy is disabled.
OnlyTaskOneHangs ==
    /\ NumSpecs = 3
    /\ HasReturned(0)
    /\ call_specs[1].kind = "hang"
    /\ HasReturned(2)
    /\ ~raise_on_process_error

\* The error of index i of a task that returned: None, unless what it returned
\* is the very string NO_RESULT, which line 259 takes for a missing result.
ErrorOfReturned(i) ==
    IF call_specs[i].ret = NO_RESULT THEN ResultNotReceivedError ELSE None

\* C5 as stated: with 3 specs of which only task 1 hangs, the call returns
\* results = [R0, NO_RESULT, R2] and errors = [none, ("NoResultReceivedError",
\* message), none].
C5_AsStated ==
    (Finished /\ OnlyTaskOneHangs) =>
        /\ pc = "returned"
        /\ proc_results[0] = call_specs[0].ret
        /\ proc_results[1] = NO_RESULT
        /\ proc_results[2] = call_specs[2].ret
        /\ proc_errors[0] = None
        /\ proc_errors[1][1] = "NoResultReceivedError"
        /\ proc_errors[2] = None

\* C5, amended: with 3 specs of which only task 1 hangs, the call returns
\* results = [R0, NO_RESULT, R2]; the error of index 1 is the synthesized
\* ("ResultNotReceivedError", "Did not receive any results from the process.");
\* the errors of indices 0 and 2 are None for a value other than the string
\* NO_RESULT, and the same synthesized error for that string.
C5_HangingTaskGetsResultNotReceived ==
    (Finished /\ OnlyTaskOneHangs) =>
        /\ pc = "returned"
        /\ proc_results[0] = call_specs[0].ret
        /\ proc_results[1] = NO_RESULT
        /\ proc_results[2] = call_specs[2].ret
        /\ proc_errors[0] = ErrorOfReturned(0)
        /\ proc_errors[1] = <<"ResultNotReceivedError",
                               "Did not receive any results from the process.">>
        /\ proc_errors[2] = ErrorOfReturned(2)

\* C5's case: the scenario ran to its end with values R0 and R2, and task 1 was
\* still running when its join timed out.
C5_Witness ==
    /\ pc = "returned"
    /\ OnlyTaskOneHangs
    /\ call_specs[0].ret = "R0"
    /\ call_specs[2].ret = "R2"
    /\ 1 \in terminated

\* C6 as stated: when execute_concurrently returns or raises, no process it
\* started is still running, whatever the tasks do.
C6_AsStated == Finished => \A p \in ProcIds : ~IsAlive(p)

\* C6, amended: when execute_concurrently returns or raises, the only processes
\* still running are ones that were sent terminate() and then kill() and had
\* not exited when the join after the kill timed out; every other process has
\* exited.
C6_OnlyKilledProcessesSurvive ==
    Finished =>
        \A p \in ProcIds :
            /\ pstate[p] # "new"
            /\ IsAlive(p) => (p \in terminated /\ p \in killed)

\* C6's case: the call is over, a process that ignored terminate() died of the
\* kill, and another is still running after its kill.
C6_Witness ==
    /\ Finished
    /\ \E p, q \in ProcIds :
          /\ p \in killed /\ ~IsAlive(p)
          /\ q \in killed /\ IsAlive(q)

\* The join loop of lines 238-246 is over: every process is resolved.
AllResolved == pc \in {"read_return", "read_error", "reconcile", "returned", "raised"}

\* C7 as stated: the time from the deadline to the end of the join loop is
\* bounded by a constant that does not grow with the number of tasks still
\* running at the deadline: the two waits of one escalation.
C7_AsStated == now - deadline <= 2 * _TIMEOUT_TERMINATE_PROCESS

\* C7, amended: the time from the deadline to the end of the join loop is at
\* most _TIMEOUT_TERMINATE_PROCESS for every process that was sent terminate()
\* plus _TIMEOUT_TERMINATE_PROCESS for every process that was sent kill(): the
\* processes are escalated one after the other, so the bound grows with the
\* number of tasks still running at the deadline, up to
\* 2 * _TIMEOUT_TERMINATE_PROCESS * len(call_specs).
C7_LatencyGrowsWithEscalations ==
    /\ now - deadline <= _TIMEOUT_TERMINATE_PROCESS * Cardinality(terminated)
                           + _TIMEOUT_TERMINATE_PROCESS * Cardinality(killed)
    /\ now - deadline <= 2 * _TIMEOUT_TERMINATE_PROCESS * NumSpecs

\* C7's case: two processes were still running at the deadline and the join
\* loop ended later than one escalation after it.
C7_Witness ==
    /\ AllResolved
    /\ Cardinality(killed) >= 2
    /\ now - deadline > 2 * _TIMEOUT_TERMINATE_PROCESS

\* Index i ends with an error: its task did not deliver a value other than
\* the string NO_RESULT.
EndsWithError(i) == ~(HasReturned(i) /\ call_specs[i].ret # NO_RESULT)

\* C8: execute_concurrently raises ParallelUtilsError if and only if
\* raise_on_process_error is True and at least one index has an error, the
\* synthesized one included; otherwise it returns (results, errors). It raises
\* only after every process has been joined or killed.
C8_RaisesIffFlagAndError ==
    Finished =>
        /\ pc = "raised" <=>
              (raise_on_process_error /\ \E i \in ProcIds : EndsWithError(i))
        /\ pc = "returned" <=>
              ~(raise_on_process_error /\ \E i \in ProcIds : EndsWithError(i))
        /\ pc = "raised" =>
              \A p \in ProcIds : pstate[p] # "new" /\ (~IsAlive(p) \/ p \in killed)

\* C8's case: the call raised for a synthesized error alone, after a kill.
C8_Witness ==
    /\ pc = "raised"
    /\ error_contents = << >>
    /\ killed # {}
    /\ \E i \in ProcIds : ~EndsWithError(i)

\* The task function of call_specs[p] returned or raised.
TaskEnded(p) == HasReturned(p) \/ HasRaised(p)

\* C24: a process makes one Manager of its own for its task function; it
\* closes the Manager at most once and only after it has put the result or
\* the error of the function, it has closed it when it exits by itself, and
\* once the processes are resolved every process whose function returned or
\* raised and that was not terminated has closed it exactly once.
C24_ManagerClosedAfterPut ==
    \A p \in ProcIds :
        /\ managers[p] <= 1
        /\ TaskEnded(p) => managers[p] = 1
        /\ closes[p] <= managers[p]
        /\ closes[p] = 1 => puts[p] = 1
        /\ pstate[p] = "exited" <=> closes[p] = 1
        /\ (AllResolved /\ TaskEnded(p) /\ p \notin terminated) => closes[p] = 1

\* C24's case: the call is over; a function that returned and one that
\* raised both had their Manager closed, in processes that were not
\* terminated.
C24_Witness ==
    /\ Finished
    /\ terminated = {}
    /\ \E p, q \in ProcIds :
          /\ HasReturned(p) /\ closes[p] = 1
          /\ HasRaised(q) /\ closes[q] = 1

\* The join the main process is blocked in has timed out.
WaitElapsed == now >= join_until

\* C25: the escalation has two stages in this order. terminate() is sent to
\* a process only at its turn, when its wait on the remaining deadline has
\* elapsed and it is still alive; kill() is sent only to a process that was
\* sent terminate(), when the wait after terminate() has elapsed and it is
\* still alive. So a process that exits during its first wait gets neither,
\* and one that exits after terminate() is not killed.
C25_TwoStageEscalation ==
    /\ [](killed \subseteq terminated)
    /\ [][\A p \in ProcIds :
             /\ (p \in terminated' /\ p \notin terminated) =>
                   (pc = "join" /\ idx = p /\ IsAlive(p) /\ WaitElapsed
                      /\ pc' = "join_term" /\ p \notin killed')
             /\ (p \in killed' /\ p \notin killed) =>
                   (pc = "join_term" /\ idx = p /\ p \in terminated
                      /\ IsAlive(p) /\ WaitElapsed)
             /\ (pc = "join" /\ idx = p /\ pc' # "join" /\ ~IsAlive(p)) =>
                   p \notin terminated'
             /\ (pc = "join_term" /\ idx = p /\ pc' # "join_term" /\ ~IsAlive(p)) =>
                   p \notin killed'
             /\ (p \in terminated => p \in terminated')
             /\ (idx > p /\ pc # "start") =>
                   (p \in terminated' <=> p \in terminated) /\ (p \in killed' <=> p \in killed)]_vars

\* C25's case: the processes are resolved; one exited after its terminate()
\* and was not killed, another was still alive after it and was killed.
C25_Witness ==
    /\ AllResolved
    /\ \E p, q \in ProcIds :
          /\ p \in terminated /\ p \notin killed /\ ~IsAlive(p)
          /\ q \in killed

\* C26: the deadline is computed once, before any process is started, and is
\* the same for every process; the wait for a process ends at the deadline,
\* or at once when the deadline has passed, never later; no process is sent
\* terminate() or kill() before the deadline; and a process that is still
\* alive when its wait ends, after the deadline, is sent terminate().
C26_OneDeadlineForTheBatch ==
    /\ [](/\ pc = "start" /\ idx = 0 => \A p \in ProcIds : pstate[p] = "new"
          /\ pc \notin {"start", "idle"} => deadline = timeout
          /\ pc = "join" => (join_until >= deadline /\ join_until <= Max(now, deadline))
          /\ terminated \cup killed # {} => now >= deadline)
    /\ [][/\ deadline' = deadline
          /\ (pc = "join" /\ pc' # "join" /\ IsAlive(idx)) =>
                (now >= deadline /\ idx \in terminated')]_vars

\* C26's case: the first process was escalated past the deadline, and the
\* second, found alive at its turn with no time left, was terminated too.
C26_Witness ==
    /\ NumSpecs = 2
    /\ terminated = {0, 1}
    /\ now > deadline

\* Every message <<proc_id, x>> of contents has its x at slot proc_id.
AllAssigned(contents, slots) ==
    \A k \in DOMAIN contents : slots[contents[k][1]] = contents[k][2]

\* C28: nothing is read from either queue before the join loop is over, and
\* then every process has exited or was sent kill(); the read of a queue
\* leaves it empty, and every message that was on it is at the slot of the
\* index it carries.
C28_QueuesDrainedAfterJoins ==
    /\ [](/\ ~AllResolved =>
               (return_contents = << >> /\ error_contents = << >>
                  /\ proc_results = << >> /\ proc_errors = << >>)
          /\ AllResolved =>
               \A p \in ProcIds : pstate[p] # "new" /\ (~IsAlive(p) \/ p \in killed))
    /\ [][/\ ReadReturnQueue =>
               (return_queue' = << >> /\ AllAssigned(return_queue, proc_results'))
          /\ ReadErrorQueue =>
               (error_queue' = << >> /\ AllAssigned(error_queue, proc_errors'))]_vars

\* C28's case: the return queue was read with a message on it, and the error
\* queue is about to be read with the error of another process on it.
C28_Witness ==
    /\ pc = "read_error"
    /\ Len(return_contents) = 1
    /\ Len(error_queue) = 1

\* C32 as stated: no completed result is lost. If the function of
\* call_specs[i] returned v before the deadline, the main process is not held
\* in the read of the return queue, and when execute_concurrently returns it
\* reports results[i] = v and errors[i] = None, whatever the size of v and
\* whatever the other functions do. Stated for the values other than the
\* string NO_RESULT, which line 259 takes for a missing result.
C32_NoCompletedResultLost ==
    \A i \in ProcIds :
        (HasReturned(i) /\ call_specs[i].ret # NO_RESULT) =>
            /\ pc # "blocked_in_get"
            /\ pc = "returned" =>
                  (proc_results[i] = call_specs[i].ret /\ proc_errors[i] = None)

\* C33 as stated: execute_concurrently always ends. Until it has returned or
\* raised, the main process has a step to take: a start, the end of a join
\* (each is bounded in time), the end of a read of a queue, or the last lines.
C33_MainProcessNeverStuck == Finished \/ ENABLED MainStep

(***************************************************************************)
(* Properties of the transport.                                            *)
(***************************************************************************)
\* The worker threads that are running.
AliveThreads == {t \in DOMAIN threads : ThreadAlive(t)}

\* C9: after any sequence of start() and close() calls from one thread at most
\* one worker thread exists, and it is the one self._worker refers to: a
\* start() that finds a worker creates no other; exactly one worker is alive
\* whenever the transport reports is_open().
C9_AtMostOneWorker ==
    /\ Cardinality(AliveThreads) <= 1
    /\ AliveThreads \subseteq {_worker}
    /\ is_open => Cardinality(AliveThreads) = 1

\* C9's case: the client is on its second worker after a close, the transport
\* is open, and a further start() found that worker and kept it.
C9_Witness ==
    /\ outcome = <<"start", "kept">>
    /\ Len(threads) >= 2
    /\ is_alive
    /\ is_open

\* C10: _close() attempts both cleanup steps even when one fails: when it has
\* ended, with DeviceError of the join timeout or without error, the lock on
\* the handle is released and the handle is closed.
C10_CloseAttemptsBothSteps ==
    (caller = "idle" /\ outcome[1] = "_close") => (~locked /\ ~serial_open)

\* C11: _close() is idempotent: a _close() called after a _close() that
\* succeeded does not raise, and leaves the handle closed and no worker.
C11_SecondCloseSucceeds ==
    [][(outcome = <<"_close", "ok">> /\ outcome'[1] = "_close")
         => (outcome'[2] = "ok" /\ ~serial_open' /\ _worker' = NoThread)]_vars

\* C12: a call of is_open() returns True exactly when the handle is open and
\* the thread self._worker refers to is running, so False once the worker has
\* died with the handle still open; and it returns False when the last call
\* before it was the constructor or a _close() that succeeded.
C12_IsOpenMeansHandleAndWorker ==
    [][IsOpen =>
         /\ outcome'[2] = "True" <=> (serial_open /\ _worker \in AliveThreads)
         /\ outcome \in {<<"__init__", "ok">>, <<"_close", "ok">>}
              => outcome'[2] = "False"]_vars

\* C12's case: is_open() has returned False with the handle open and the
\* worker dead.
C12_Witness ==
    /\ outcome = <<"is_open", "False">>
    /\ serial_open
    /\ _worker # NoThread
    /\ ~ThreadAlive(_worker)

\* The caller is blocked in the join of PwHdlcRpcClient.close.
InJoin == caller \in {"join_client", "join_transport"}

\* C13: PwHdlcRpcClient.close has set the stop event while it waits, waits no
\* longer than _JOIN_TIMEOUT_SEC, raises DeviceError exactly when the worker
\* is still alive at the end of the wait, and otherwise leaves no worker.
C13_CloseReportsLiveWorker ==
    [][(InJoin /\ caller' = "idle") =>
         /\ _stop_event
         /\ elapsed <= _JOIN_TIMEOUT_SEC
         /\ outcome'[2] = "DeviceError" <=> ThreadAlive(_worker)
         /\ outcome'[2] # "DeviceError" => _worker' = NoThread]_vars

\* C13's case: close() has raised DeviceError after a wait of
\* _JOIN_TIMEOUT_SEC, and the worker is still running.
C13_Witness ==
    /\ outcome = <<"close", "DeviceError">>
    /\ elapsed = _JOIN_TIMEOUT_SEC
    /\ _stop_event
    /\ is_alive

\* C22: _open() on a transport whose handle is open is refused: it raises
\* before line 208, acquires no second handle and starts no second worker;
\* and the handle only goes from closed to open by an _open(), after which
\* the worker the client refers to is the only one alive.
C22_NoReentrantOpen ==
    /\ [][(Open /\ serial_open) =>
             /\ outcome' = <<"_open", "SerialException">>
             /\ UNCHANGED <<handleVars, threads, _worker, _stop_event>>]_vars
    /\ [][(~serial_open /\ serial_open') =>
             /\ Open
             /\ outcome'[1] = "_open"
             /\ {t \in DOMAIN threads' : threads'[t] # "exited"} \subseteq {_worker'}]_vars

\* C22's case: _open() was called on the open transport, with its worker
\* running, and was refused.
C22_Witness ==
    /\ outcome = <<"_open", "SerialException">>
    /\ serial_open
    /\ is_alive

(***************************************************************************)
(* Properties of the link: what the worker does with the frames.           *)
(***************************************************************************)
\* The frames of a sequence of calls of _handle_frame.
FramesOf(calls) == [i \in 1..Len(calls) |-> calls[i].frame]

\* The number the device gave the frame with this payload.
SeqNo(data) == IF Len(data) = 1 THEN data[1] ELSE data[2]

\* The chunks a sequence of frames leaves on the log queue, line 150.
Chunks(log_frames) == [i \in 1..Len(log_frames) |-> log_frames[i].data \o <<NEWLINE>>]

\* A step of the worker that handles the first of its frames.
HandlesFrame == Len(handled') = Len(handled) + 1

\* C14: a frame whose frame.ok() is false is never given to the RPC client
\* and never put on the log queue, whatever its address, and handling it
\* raises nothing.
C14_InvalidFrameNeverDelivered ==
    /\ \A i \in DOMAIN rpc_packets : rpc_packets[i].ok
    /\ \A i \in DOMAIN log_puts : log_puts[i].ok
    /\ \A i \in DOMAIN handled : ~handled[i].frame.ok => ~handled[i].raised
    /\ Len(rpc_packets) + Len(log_puts)
         <= Cardinality({i \in DOMAIN handled : handled[i].frame.ok})

\* C14's case: the worker has handled a frame with a wrong checksum for the
\* RPC address and one for the log address.
C14_Witness ==
    \E i, j \in DOMAIN handled :
        /\ ~handled[i].frame.ok /\ handled[i].frame.address = _DEFAULT_ADDRESS
        /\ ~handled[j].frame.ok /\ handled[j].frame.address = _STDOUT_ADDRESS

\* Calls of _handle_frame with a valid frame for the RPC client, and with a
\* valid frame for the log whose push did not raise.
IsRpcCall(call) == call.frame.ok /\ call.frame.address = _DEFAULT_ADDRESS
IsLogCall(call) ==
    call.frame.ok /\ call.frame.address = _STDOUT_ADDRESS /\ ~call.raised

\* A valid frame for an address other than the RPC and the log address.
IsUnhandled(frame) ==
    frame.ok /\ frame.address \notin {_DEFAULT_ADDRESS, _STDOUT_ADDRESS}

\* C15: the RPC client gets the valid frames of the RPC address and no
\* other, the log queue those of the log address and no other; handling a
\* valid frame of another address changes neither, raises nothing and leaves
\* the worker in its loop.
C15_FramesGoByAddress ==
    /\ [](/\ rpc_packets = FramesOf(SelectSeq(handled, IsRpcCall))
          /\ log_puts = FramesOf(SelectSeq(handled, IsLogCall)))
    /\ [][(HandlesFrame /\ IsUnhandled(Head(frames))) =>
            /\ UNCHANGED <<rpc_packets, log_puts, log_queue, threads>>
            /\ ~handled'[Len(handled')].raised]_vars

\* C15's case: the worker has handled a valid frame of an unhandled address
\* and, after it, a valid log frame that is on its way to the readers.
C15_Witness ==
    \E i, j \in DOMAIN handled :
        /\ i < j
        /\ IsUnhandled(handled[i].frame)
        /\ IsLogCall(handled[j])
        /\ Len(log_puts) = 1

\* C16: an exception raised while a frame is handled leaves the worker where
\* it was: its thread is not over, the frames of the read that follow are
\* still to be handled, and the decoder and the bytes not read yet are
\* untouched.
C16_HandlerExceptionIsContained ==
    [][(HandlesFrame /\ handled'[Len(handled')].raised) =>
         /\ frames' = Tail(frames)
         /\ UNCHANGED <<threads, decoder, rx, _stop_event>>]_vars

\* C16's case: the handler of a frame raised, and a valid frame that came
\* after it was dispatched to the log.
C16_Witness ==
    \E i, j \in DOMAIN handled :
        /\ i < j
        /\ handled[i].raised
        /\ IsLogCall(handled[j])
        /\ handled[j].frame \in {log_puts[k] : k \in DOMAIN log_puts}

\* The numbers of a sequence of payloads grow.
InOrder(payloads) ==
    \A i, j \in DOMAIN payloads : i < j => SeqNo(payloads[i]) < SeqNo(payloads[j])

\* The chunks handed or still to be handed to the readers of the log, in the
\* order of the reads.
ReaderChunks == reads \o log_queue

\* The payload a chunk was made of: the chunk without its final newline.
ChunkPayload(chunk) == SubSeq(chunk, 1, Len(chunk) - 1)

\* C17: frames are dispatched in the order the device sent them, and the
\* readers of the log queue get the chunks of the log frames in that order.
C17_ArrivalOrder ==
    /\ InOrder([i \in DOMAIN handled |-> handled[i].frame.data])
    /\ \A i \in DOMAIN ReaderChunks :
          ReaderChunks[i][Len(ReaderChunks[i])] = NEWLINE
    /\ InOrder([i \in DOMAIN ReaderChunks |-> ChunkPayload(ReaderChunks[i])])

\* C17's case: two log frames were sent and both chunks were read.
C17_Witness ==
    /\ Len(reads) = 2
    /\ Len(log_puts) = 2

OneChunk == process_valid_frames(FrameDecoder, wire_read)

\* C19: whatever the reads the bytes arrived in, the worker's decoder has
\* completed the frames, and is in the state, that one read of all the bytes
\* gives; each of them was handled once or is about to be.
C19_ChunkingDoesNotMatter ==
    /\ yielded = OneChunk.frames
    /\ decoder = OneChunk.decoder
    /\ FramesOf(handled) \o frames = yielded

\* C19's case: two frames that took more than two reads, so that one of them
\* came in pieces, have been handled whole.
C19_Witness ==
    /\ rx = << >>
    /\ Len(wire_read) > 2 * MaxChunk
    /\ Len(handled) = 2
    /\ \A i \in DOMAIN handled : handled[i].frame.ok

(***************************************************************************)
(* Properties of rpc().                                                    *)
(***************************************************************************)
\* A step that ends the pending call of rpc().
RpcEnds == RpcNext /\ rpc_caller = "pending" /\ rpc_caller' = "idle"

\* C20: when the transport has been closed while a call of rpc() is pending,
\* the call does not stay blocked: it can end.
C20_PendingCallEndsOnClose ==
    (rpc_caller = "pending" /\ caller = "idle" /\ ~serial_open /\ _worker = NoThread)
        => ENABLED RpcEnds


\* A remote that declines the call answers with a status that is not OK, one
\* that fails it with an error.
Declined(reply) == reply.kind = "error" \/ ~reply.ok

\* C21: an rpc() the remote has answered returns (True, payload), payload
\* being the serialized response, when the remote acknowledged; and returns
\* (False, b"") without raising when the remote declined or failed the call.
C21_RpcReturnsAckAndPayload ==
    (rpc_caller = "idle" /\ rpc_reply # NoReply) =>
        /\ rpc_outcome = <<"rpc", "response">>
        /\ rpc_value = IF Declined(rpc_reply)
                         THEN <<FALSE, << >>>>
                         ELSE <<TRUE, SerializeToString(rpc_reply.message)>>


\* C23: importing the module succeeds with and without the Pigweed packages;
\* constructing the transport, which creates the client, raises
\* DependencyUnavailableError with its message exactly when a package is
\* missing.
C23_MissingPackagesReportedAtFirstUse ==
    /\ module_state # "ImportError"
    /\ constructed[1] # "no" =>
          /\ module_state = "imported"
          /\ constructed = (IF PigweedPackages \subseteq installed
                              THEN <<"ok", "">>
                              ELSE DependencyUnavailable)

\* C23's case: with one package of the three missing the module was imported
\* and the construction raised DependencyUnavailableError.
C23_Witness ==
    /\ Cardinality(installed) = 2
    /\ module_state = "imported"
    /\ constructed[1] = "DependencyUnavailableError"


\* A step of worker thread t.
WorkerStep(t) ==
    \/ WorkerCheck(t)
    \/ WorkerSelectIdle(t)
    \/ WorkerSelectData(t)
    \/ WorkerHandleFrame(t)
    \/ WorkerHandled(t)
    \/ WorkerCrash(t)

\* How far a worker is from the end of its thread once the stop event is
\* set: the test of the loop is one step away, the handling of the frames of
\* a read one step more for each frame, and a select one step more than the
\* most frames a read can hold.
StepsToExit(position, pending) ==
    CASE position = "exited"   -> 0
      [] position = "check"    -> 1
      [] position = "handling" -> 2 + Len(pending)
      [] position = "select"   -> 3 + MaxChunk

\* C27: with the stop event set, a live worker calls select no more once its
\* current iteration is over; it always has a step to take, and every step
\* it takes brings it nearer to the end of its thread: what is left is at
\* most the select it is in, the handling of the frames of that read, and the
\* test of the loop.
C27_StopEndsTheLoop ==
    /\ [](\A t \in DOMAIN threads :
            (_stop_event /\ ThreadAlive(t)) => ENABLED WorkerStep(t))
    /\ [][\A t \in DOMAIN threads :
            (_stop_event /\ ThreadAlive(t)) =>
               /\ threads'[t] = "select" => threads[t] = "select"
               /\ (threads'[t] # threads[t] \/ frames' # frames) =>
                     StepsToExit(threads'[t], frames') < StepsToExit(threads[t], frames)]_vars

\* C27's case: _close() set the stop event while the worker was handling the
\* frames of a read, and waited a second for it; the worker finished them and
\* its thread is over.
C27_Witness ==
    /\ caller = "join_transport"
    /\ _stop_event
    /\ elapsed = 1
    /\ handled # << >>
    /\ ~ThreadAlive(_worker)


\* C29: when two threads call start() at the same time on a client with no
\* worker, at most one worker thread is created and started.
C29_ConcurrentStartMakesOneWorker ==
    Cardinality({t \in DOMAIN threads : threads[t] # "created"}) <= 1


\* C30: a transport used through _open() and _close() never has a worker
\* running on a handle it has closed: whenever the handle is closed no worker
\* thread is alive; the step that closes the handle finds the worker joined
\* and its thread over; and a worker is started only by a step that leaves
\* the handle open.
C30_NoWorkerOnClosedHandle ==
    /\ [](~serial_open => AliveThreads = {})
    /\ [][(serial_open /\ ~serial_open') =>
             /\ InJoin \/ _worker = NoThread
             /\ AliveThreads = {}
             /\ _worker' = NoThread]_vars
    /\ [][Len(threads') > Len(threads) => (Open /\ serial_open')]_vars

\* C30's case: the transport was opened, its worker ran, and _close() closed
\* the handle after the join of the worker.
C30_Witness ==
    /\ outcome = <<"_close", "ok">>
    /\ ~serial_open
    /\ threads # << >>
    /\ handled # << >>

\* C31: a transport can be opened again after a successful _close(). The
\* close leaves the client without a worker reference and the handle closed;
\* the next _open() that opens the handle leaves the stop event clear,
\* creates exactly one new thread, which is the worker and the only live
\* thread, and is_open() is true after it; and the new thread's first test of
\* the loop leads to select unless the stop event was set again after the
\* open, which only close() does.
C31_ReopenAfterClose ==
    /\ []((outcome = <<"_close", "ok">>) =>
            (_worker = NoThread /\ ~serial_open /\ AliveThreads = {}))
    /\ [][(Open /\ outcome = <<"_close", "ok">> /\ serial_open') =>
             /\ ~_stop_event'
             /\ Len(threads') = Len(threads) + 1
             /\ _worker' = Len(threads')
             /\ threads'[_worker'] = "check"
             /\ Cardinality({t \in DOMAIN threads' :
                                threads'[t] \notin {"created", "exited"}}) = 1
             /\ serial_open' /\ _worker' # NoThread]_vars
    /\ [][\A t \in DOMAIN threads :
             (threads[t] = "check" /\ threads'[t] = "exited") =>
                _stop_event]_vars
    /\ [][(~_stop_event /\ _stop_event') => (Close \/ ClientClose)]_vars

\* C31's case: the first worker ran and was closed with success, _open()
\* opened the transport again, and the second worker went through the test
\* of its loop into select; is_open() is true.
C31_Witness ==
    /\ Len(threads) = 2
    /\ threads[1] = "exited"
    /\ threads[2] = "select"
    /\ _worker = 2
    /\ outcome = <<"_open", "created">>
    /\ ~_stop_event
    /\ is_open

====
